---------------------------- MODULE Spec2Model ----------------------------
(***************************************************************************)
(* RSSucks: the Feed graph (src/feed.rs), the article identifier and its   *)
(* order (src/article.rs, src/subscription/article.rs) and the             *)
(* fire-and-forget synchronisation of entries (Feed::try_sync_entry_by_id).*)
(*                                                                         *)
(* Uuids are modelled as positive integers handed out in order (a          *)
(* Uuid::new_v4 is never handed out twice); Option::None is 0.  Per-feed   *)
(* item ids (strings) are modelled as positive integers whose order is the *)
(* lexical order of the strings.  Timestamps are positive integers.        *)
(***************************************************************************)
EXTENDS Integers, Sequences, FiniteSets, Bags, TLC

\* ------------------------------------------------------------------ bounds
MaxEntries == 3
MaxFolders == 2
MaxOutlines == 2
MaxFolderEntries == 1
MaxFetches == 2
MaxTime == 3
MaxId == 2
MaxNodes == 3
MaxDom == 3

None == 0

EntryUuids == 1..MaxEntries
FolderUuids == 1..MaxFolders

VARIABLES
    entries_map,   \* Feed.entries_map: EntryUuid -> Entry (its belong_to)
    folders_map,   \* Feed.folders_map: FolderUuid -> Folder (its entries)
    orphans,       \* Feed.orphans
    articles,      \* Entry.articles of every entry ever created (an Arc shared with callbacks)
    articles_map,  \* Feed.articles_map: a BTreeMap as its sequence of (key, value) in key order
    fetches,       \* the ehttp::fetch requests in flight, one callback thread each
    uuids,         \* number of EntryUuids handed out by Uuid::new_v4
    last_doc,      \* per entry, the document merged by its last finished callback (0: none)
    ret,           \* what the last foreground call returned: "Ok" or "Err"
    call,          \* the last call the foreground made on the Feed: the method, the
                   \* ids of a structural call and what it read
    panicked,      \* the threads that have ended in a panic: "main", "ehttp"
    x, y,          \* a pair of ArticleUuids handed to the comparators
    ord, sub_ord,  \* x.cmp(&y) by src/article.rs and by src/subscription/article.rs
    document,      \* the opml::OPML tree read from the OPML file
    opml,          \* the Opml converted from the document or from the Feed
    dumped,        \* the opml::OPML tree that try_dump converts the Opml to
    stage,         \* how far the OPML adapter is: "feed" when the Feed is live,
                   \* else "read", "parsed", "dumped", "built", "failed", "exported"
    set_lock,      \* per entry, the thread that holds the Mutex of Entry.articles
    map_lock,      \* the thread that holds the Mutex of Feed.articles_map
    reader,        \* FeedFlowView::show: where it is, the entry shown and the ids
                   \* it has copied from the entry and not looked up yet
    fragment,      \* the children of the root element of the parsed summary
    visited,       \* number of edges of the traversal Builder::from_article has consumed
    dom_stack,     \* from_article: the tag names pushed
    element_stack, \* from_article: the styles pushed
    elements,      \* the Elements built, which the Detail widget shows
    idx,           \* Detail: the index into elements
    detail         \* where the article is: "none", "build" in from_article, in the
                   \* loops of Detail at "outer", "inline" or "images", or "done"

vars == <<entries_map, folders_map, orphans, articles, articles_map, fetches,
          uuids, last_doc, ret, call, panicked, x, y, ord, sub_ord,
          document, opml, dumped, stage, set_lock, map_lock, reader,
          fragment, visited, dom_stack, element_stack, elements, idx, detail>>

graph == <<entries_map, folders_map, orphans>>
store == <<articles, articles_map>>
pair == <<x, y, ord, sub_ord>>
adapter == <<document, opml, dumped, stage>>
locks == <<set_lock, map_lock, reader>>
render == <<fragment, visited, dom_stack, element_stack, elements, idx, detail>>

\* ------------------------------------------------------------ ArticleUuid

\* struct ArticleUuid { updated, published, feed_id, id }
ArticleUuid_new(update, publish, feed_id, id) ==
    [updated |-> update, published |-> publish, feed_id |-> feed_id, id |-> id]

ArticleUuids ==
    [updated : 0..MaxTime, published : 0..MaxTime, feed_id : EntryUuids, id : 1..MaxId]

\* Ord for integers, strings and DateTime<Utc>
IntCmp(a, b) == IF a < b THEN "Less" ELSE IF a > b THEN "Greater" ELSE "Equal"

\* Ord for Option<DateTime<Utc>>: None is less than every Some
OptionCmp(a, b) == IntCmp(a, b)

\* the closure get_time_fn of src/article.rs
get_time_fn(uuid) ==
    IF uuid.updated # None THEN uuid.updated
    ELSE IF uuid.published # None THEN uuid.published
    ELSE None

\* cmp written with < alone: two ids never compare Equal
cmp_never_equal(self, other) ==
    LET st == get_time_fn(self)
        ot == get_time_fn(other)
    IN  IF st # None /\ ot # None THEN (IF ot < st THEN "Less" ELSE "Greater")
        ELSE IF st # None /\ ot = None THEN "Less"
        ELSE IF st = None /\ ot # None THEN "Greater"
        ELSE (IF self.id < other.id THEN "Less" ELSE "Greater")

\* impl Ord for ArticleUuid, src/article.rs (the one src/feed.rs imports)
cmp(self, other) ==
    LET st == get_time_fn(self)
        ot == get_time_fn(other)
    IN  IF st # None /\ ot # None THEN IntCmp(ot, st)
        ELSE IF st # None /\ ot = None THEN "Less"
        ELSE IF st = None /\ ot # None THEN "Greater"
        ELSE IntCmp(self.id, other.id)

\* impl Ord for ArticleUuid, src/subscription/article.rs
subscription_cmp(self, other) ==
    LET u == OptionCmp(other.updated, self.updated)
        p == OptionCmp(other.published, self.published)
    IN  IF u = "Equal"
        THEN IF p = "Equal" THEN IntCmp(self.id, other.id) ELSE p
        ELSE u

\* ------------------------------------------------ BTreeSet<ArticleUuid>

\* index of the first element that is not Less than id (Len + 1 when none)
RECURSIVE search(_, _, _)
search(set, id, i) ==
    IF i > Len(set) THEN i
    ELSE IF cmp(set[i], id) = "Less" THEN search(set, id, i + 1)
    ELSE i

\* BTreeSet::contains
contains(set, id) ==
    LET i == search(set, id, 1)
    IN  i <= Len(set) /\ cmp(set[i], id) = "Equal"

InsertAt(s, i, e) == SubSeq(s, 1, i - 1) \o <<e>> \o SubSeq(s, i, Len(s))

\* BTreeSet::insert: an equal element is kept as it is
insert(set, id) ==
    IF contains(set, id) THEN set ELSE InsertAt(set, search(set, id, 1), id)

\* ------------------------------------ BTreeMap<ArticleUuid, Article>

RECURSIVE map_search(_, _, _)
map_search(map, key, i) ==
    IF i > Len(map) THEN i
    ELSE IF cmp(map[i].key, key) = "Less" THEN map_search(map, key, i + 1)
    ELSE i

\* BTreeMap::insert: on an equal key the value is replaced and the key kept
map_insert(map, key, value) ==
    LET i == map_search(map, key, 1)
    IN  IF i <= Len(map) /\ cmp(map[i].key, key) = "Equal"
        THEN [map EXCEPT ![i].value = value]
        ELSE InsertAt(map, i, [key |-> key, value |-> value])

\* BTreeMap::get: the index of the entry with an equal key, 0 when absent
map_get(map, key) ==
    LET i == map_search(map, key, 1)
    IN  IF i <= Len(map) /\ cmp(map[i].key, key) = "Equal" THEN i ELSE 0

\* ------------------------------------------------------------- Feed graph

Remove(f, k) == [j \in DOMAIN f \ {k} |-> f[j]]
Put(f, k, v) == [j \in DOMAIN f \cup {k} |-> IF j = k THEN v ELSE f[j]]

\* Entry::try_from(opml::Entry) / Entry::new followed by set_belonging
Entry(belong_to) == [belong_to |-> belong_to]

\* The outlines of a parsed OPML body: an entry, or a folder holding n entries
Outlines == {[folder |-> FALSE, n |-> 0]} \cup
            {[folder |-> TRUE, n |-> k] : k \in 0..MaxFolderEntries}

CountEntries(body) ==
    LET RECURSIVE cnt(_)
        cnt(i) == IF i > Len(body) THEN 0
                  ELSE (IF body[i].folder THEN body[i].n ELSE 1) + cnt(i + 1)
    IN  cnt(1)

CountFolders(body) == Cardinality({i \in DOMAIN body : body[i].folder})

Opmls ==
    {body \in UNION {[1..n -> Outlines] : n \in 0..MaxOutlines} :
        CountEntries(body) <= MaxEntries /\ CountFolders(body) <= MaxFolders}

\* impl TryFrom<opml::Opml> for Feed: the loop over value.body.outlines
RECURSIVE TryFrom(_, _, _)
TryFrom(body, i, feed) ==
    IF i > Len(body) THEN feed
    ELSE IF ~body[i].folder
    THEN LET uuid == feed.uuids + 1
         IN  TryFrom(body, i + 1,
                 [feed EXCEPT !.entries_map = Put(@, uuid, Entry(None)),
                              !.orphans = @ \cup {uuid},
                              !.uuids = uuid])
    ELSE LET uuid == feed.folders + 1
             inside == (feed.uuids + 1)..(feed.uuids + body[i].n)
         IN  TryFrom(body, i + 1,
                 [feed EXCEPT !.entries_map =
                                  [e \in DOMAIN @ \cup inside |->
                                      IF e \in inside THEN Entry(uuid) ELSE @[e]],
                              !.folders_map = Put(@, uuid, [entries |-> inside]),
                              !.uuids = @ + body[i].n,
                              !.folders = uuid])

EmptyFeed ==
    [entries_map |-> <<>>, folders_map |-> <<>>, orphans |-> {}, uuids |-> 0, folders |-> 0]

\* A call of the foreground on the Feed: the method, its entry and folder
\* arguments, the belong_to it read from the entry and the set of ids it read
Call(op, entry, folder, old, ids) ==
    [op |-> op, entry |-> entry, folder |-> folder, old |-> old, ids |-> ids]

\* Feed::try_get_folder_by_id / try_get_entry_by_id: does the id resolve
try_get_folder_by_id(id) == id \in DOMAIN folders_map
try_get_entry_by_id(id) == id \in DOMAIN entries_map

\* try_remove_entry_id_from_folder_set without the removal
remove_from_folder_set_kept(fm, entry_id, old_folder_id) ==
    [ok |-> old_folder_id \in DOMAIN fm, folders_map |-> fm]

\* try_add_entry_id_to_folder_set inserting into the member set of every folder
add_to_every_folder_set(fm, entry_id, new_folder_id) ==
    [ok |-> new_folder_id \in DOMAIN fm,
     folders_map |-> IF new_folder_id \in DOMAIN fm
                     THEN [g \in DOMAIN fm |-> [entries |-> fm[g].entries \cup {entry_id}]]
                     ELSE fm]

\* try_remove_entry_id_from_folder_set emptying the member set of the folder
remove_all_from_folder_set(fm, entry_id, old_folder_id) ==
    IF old_folder_id \in DOMAIN fm
    THEN [ok |-> TRUE, folders_map |-> [fm EXCEPT ![old_folder_id].entries = {}]]
    ELSE [ok |-> FALSE, folders_map |-> fm]

\* Feed::try_remove_entry_id_from_folder_set: Err leaves the map as it is
try_remove_entry_id_from_folder_set(fm, entry_id, old_folder_id) ==
    IF old_folder_id \in DOMAIN fm
    THEN [ok |-> TRUE,
          folders_map |-> [fm EXCEPT ![old_folder_id].entries = @ \ {entry_id}]]
    ELSE [ok |-> FALSE, folders_map |-> fm]

\* Feed::try_add_entry_id_to_folder_set
try_add_entry_id_to_folder_set(fm, entry_id, new_folder_id) ==
    IF new_folder_id \in DOMAIN fm
    THEN [ok |-> TRUE,
          folders_map |-> [fm EXCEPT ![new_folder_id].entries = @ \cup {entry_id}]]
    ELSE [ok |-> FALSE, folders_map |-> fm]

\* add_orphan_entry that leaves the new id out of the orphan set
add_entry_unlisted ==
    /\ uuids < MaxEntries
    /\ LET uuid == uuids + 1
       IN  /\ entries_map' = Put(entries_map, uuid, Entry(None))
           /\ uuids' = uuid
           /\ call' = Call("add_orphan_entry", uuid, None, None, {})
    /\ ret' = "Ok"
    /\ UNCHANGED <<folders_map, orphans, store, fetches, last_doc, panicked, pair, render, adapter, locks>>

\* Feed::add_orphan_entry
add_orphan_entry ==
    /\ uuids < MaxEntries
    /\ LET uuid == uuids + 1
       IN  /\ entries_map' = Put(entries_map, uuid, Entry(None))
           /\ orphans' = orphans \cup {uuid}
           /\ uuids' = uuid
           /\ call' = Call("add_orphan_entry", uuid, None, None, {})
    /\ ret' = "Ok"
    /\ UNCHANGED <<folders_map, store, fetches, last_doc, panicked, pair, render, adapter, locks>>

\* Feed::try_add_entry_to_folder
try_add_entry_to_folder(to_folder_uuid) ==
    /\ uuids < MaxEntries
    /\ LET uuid == uuids + 1
           r == try_add_entry_id_to_folder_set(folders_map, uuid, to_folder_uuid)
       IN  /\ entries_map' = Put(entries_map, uuid, Entry(to_folder_uuid))
           /\ folders_map' = r.folders_map
           /\ uuids' = uuid
           /\ ret' = "Ok"
           /\ call' = Call("try_add_entry_to_folder", uuid, to_folder_uuid, None, {})
    /\ UNCHANGED <<orphans, store, fetches, last_doc, panicked, pair, render, adapter, locks>>

\* Feed::try_remove_entry_by_id
try_remove_entry_by_id(id) ==
    /\ IF ~try_get_entry_by_id(id)
       THEN /\ ret' = "Err"
            /\ UNCHANGED graph
       ELSE /\ IF entries_map[id].belong_to # None
               THEN /\ folders_map' = try_remove_entry_id_from_folder_set(
                                          folders_map, id, entries_map[id].belong_to).folders_map
                    /\ UNCHANGED orphans
               ELSE /\ orphans' = orphans \ {id}
                    /\ UNCHANGED folders_map
            /\ entries_map' = Remove(entries_map, id)
            /\ ret' = "Ok"
    /\ call' = Call("try_remove_entry_by_id", id, None,
                    IF try_get_entry_by_id(id) THEN entries_map[id].belong_to ELSE None, {})
    /\ UNCHANGED <<store, fetches, uuids, last_doc, panicked, pair, render, adapter, locks>>

\* try_remove_folder_by_id demoting the folder's entries to orphans
remove_folder_demoting(id) ==
    /\ IF id \notin DOMAIN folders_map
       THEN /\ ret' = "Err"
            /\ UNCHANGED graph
       ELSE /\ entries_map' = [e \in DOMAIN entries_map |->
                                  IF e \in folders_map[id].entries
                                  THEN Entry(None) ELSE entries_map[e]]
            /\ orphans' = orphans \cup folders_map[id].entries
            /\ folders_map' = Remove(folders_map, id)
            /\ ret' = "Ok"
    /\ call' = Call("try_remove_folder_by_id", None, id, None,
                    IF id \in DOMAIN folders_map THEN folders_map[id].entries ELSE {})
    /\ UNCHANGED <<store, fetches, uuids, last_doc, panicked, pair, render, adapter, locks>>

\* Feed::try_remove_folder_by_id
try_remove_folder_by_id(id) ==
    /\ IF ~try_get_folder_by_id(id)
       THEN /\ ret' = "Err"
            /\ UNCHANGED graph
       ELSE /\ entries_map' = [e \in DOMAIN entries_map \ folders_map[id].entries |->
                                  entries_map[e]]
            /\ folders_map' = Remove(folders_map, id)
            /\ ret' = "Ok"
            /\ UNCHANGED orphans
    /\ call' = Call("try_remove_folder_by_id", None, id, None,
                    IF try_get_folder_by_id(id) THEN folders_map[id].entries ELSE {})
    /\ UNCHANGED <<store, fetches, uuids, last_doc, panicked, pair, render, adapter, locks>>

\* Feed::try_move_entry_to_folder
try_move_entry_to_folder(entry_id, to_folder_id) ==
    /\ IF ~try_get_entry_by_id(entry_id)
       THEN /\ ret' = "Err"
            /\ UNCHANGED graph
       ELSE LET old == entries_map[entry_id].belong_to
                rem == try_remove_entry_id_from_folder_set(folders_map, entry_id, old)
            IN  IF old # None /\ to_folder_id # None
                THEN \* from a folder to another folder
                     LET add == try_add_entry_id_to_folder_set(
                                    rem.folders_map, entry_id, to_folder_id)
                     IN  /\ folders_map' = IF rem.ok THEN add.folders_map ELSE folders_map
                         /\ entries_map' = IF rem.ok /\ add.ok
                                           THEN [entries_map EXCEPT
                                                    ![entry_id].belong_to = to_folder_id]
                                           ELSE entries_map
                         /\ ret' = IF rem.ok /\ add.ok THEN "Ok" ELSE "Err"
                         /\ UNCHANGED orphans
                ELSE IF old # None /\ to_folder_id = None
                THEN \* from a folder to be an orphan
                     /\ folders_map' = rem.folders_map
                     /\ orphans' = IF rem.ok THEN orphans \cup {entry_id} ELSE orphans
                     /\ entries_map' = IF rem.ok
                                       THEN [entries_map EXCEPT ![entry_id].belong_to = None]
                                       ELSE entries_map
                     /\ ret' = IF rem.ok THEN "Ok" ELSE "Err"
                ELSE IF old = None /\ to_folder_id # None
                THEN \* from an orphan to be owned by a folder
                     LET add == try_add_entry_id_to_folder_set(
                                    folders_map, entry_id, to_folder_id)
                     IN  /\ orphans' = orphans \ {entry_id}
                         /\ folders_map' = add.folders_map
                         /\ entries_map' = IF add.ok
                                           THEN [entries_map EXCEPT
                                                    ![entry_id].belong_to = to_folder_id]
                                           ELSE entries_map
                         /\ ret' = IF add.ok THEN "Ok" ELSE "Err"
                ELSE /\ entries_map' = [entries_map EXCEPT ![entry_id].belong_to = None]
                     /\ ret' = "Ok"
                     /\ UNCHANGED <<folders_map, orphans>>
    /\ call' = Call("try_move_entry_to_folder", entry_id, to_folder_id,
                    IF try_get_entry_by_id(entry_id)
                    THEN entries_map[entry_id].belong_to ELSE None, {})
    /\ UNCHANGED <<store, fetches, uuids, last_doc, panicked, pair, render, adapter, locks>>

\* ------------------------------------------------------ synchronisation

\* feed_rs::model::Entry: the fields of a fetched item the merge reads
Item(updated, published, id) == [updated |-> updated, published |-> published, id |-> id]

\* The feed documents a fetch can deliver (feed.entries of a parsed response)
Docs ==
    << <<Item(1, 3, 1), Item(None, 2, 2)>>,
       <<Item(1, 3, 1), Item(1, 3, 2)>>,
       <<Item(2, 3, 1), Item(None, None, 1)>> >>

\* impl From<feed_rs::model::Entry> for Article
Article_from(value) == [id |-> value.id, belong_to |-> None, unread |-> TRUE]

\* Article::set_belonging
set_belonging(article, id) == [article EXCEPT !.belong_to = id]

\* Article::set_read
set_read(article) == [article EXCEPT !.unread = FALSE]

\* a request handed to ehttp::fetch whose callback has not run yet
Pending(entry) == [st |-> "pending", entry |-> entry, doc |-> 0, pos |-> 0]

InFlight(e) == {t \in BagToSet(fetches) : t.entry = e}

\* number of fetches in flight for entry e
Fetching(e) ==
    LET S == InFlight(e)
        RECURSIVE sum(_)
        sum(T) == IF T = {} THEN 0
                  ELSE LET t == CHOOSE u \in T : TRUE
                       IN  CopiesIn(t, fetches) + sum(T \ {t})
    IN  sum(S)

\* ehttp::fetch(request, callback): one more request in flight
fetch(f, entry) == f (+) SetToBag({Pending(entry)})

\* Feed::try_sync_entry_by_id
try_sync_entry_by_id(id) ==
    /\ IF ~try_get_entry_by_id(id)
       THEN /\ ret' = "Err"
            /\ UNCHANGED fetches
       ELSE /\ BagCardinality(fetches) < MaxFetches
            /\ fetches' = fetch(fetches, id)
            /\ ret' = "Ok"
    /\ call' = Call("try_sync_entry_by_id", None, None, None, {})
    /\ UNCHANGED <<graph, store, uuids, last_doc, panicked, pair, render, adapter, locks>>

\* the loop of try_sync_all ending after its first pass
fetch_first(f, ids) ==
    IF ids = {} THEN f
    ELSE fetch(f, CHOOSE i \in ids : \A j \in ids : i <= j)

RECURSIVE fetch_all(_, _)
fetch_all(f, ids) ==
    IF ids = {} THEN f
    ELSE LET id == CHOOSE i \in ids : \A j \in ids : i <= j
         IN  fetch_all(fetch(f, id), ids \ {id})

\* Feed::try_sync_all
try_sync_all ==
    /\ BagCardinality(fetches) + Cardinality(DOMAIN entries_map) <= MaxFetches
    /\ fetches' = fetch_all(fetches, DOMAIN entries_map)
    /\ ret' = "Ok"
    /\ call' = Call("try_sync_all", None, None, None, DOMAIN entries_map)
    /\ UNCHANGED <<graph, store, uuids, last_doc, panicked, pair, render, adapter, locks>>

Finish(t) == fetches (-) SetToBag({t})

\* a failing callback that empties the article collection of its entry
fetch_failed_clearing(t) ==
    /\ t.st = "pending"
    /\ fetches' = Finish(t)
    /\ panicked' = panicked \cup {"ehttp"}
    /\ articles' = [articles EXCEPT ![t.entry] = <<>>]
    /\ UNCHANGED <<graph, articles_map, uuids, last_doc, ret, call, pair, render, adapter, locks>>

\* the callback on a failed request: result.expect(..) panics, the thread ends
fetch_failed(t) ==
    /\ t.st = "pending"
    /\ fetches' = Finish(t)
    /\ panicked' = panicked \cup {"ehttp"}
    /\ UNCHANGED <<graph, store, uuids, last_doc, ret, call, pair, render, adapter, locks>>

\* the callback on a body that is no feed: parse_with_uri(..).expect(..) panics
parse_failed(t) ==
    /\ t.st = "pending"
    /\ fetches' = Finish(t)
    /\ panicked' = panicked \cup {"ehttp"}
    /\ UNCHANGED <<graph, store, uuids, last_doc, ret, call, pair, render, adapter, locks>>

\* the callback on a body that parses to document d: the merge loop starts
parsed(t, d) ==
    /\ t.st = "pending"
    /\ fetches' = Finish(t) (+) SetToBag({[t EXCEPT !.st = "merging", !.doc = d, !.pos = 1]})
    /\ UNCHANGED <<graph, store, uuids, last_doc, ret, call, panicked, pair, render, adapter, locks>>

\* a merge pass that makes the entry of the callback an orphan
merge_item_orphaning(t) ==
    /\ t.st = "merging"
    /\ fetches' = Finish(t)
    /\ orphans' = orphans \cup {t.entry}
    /\ UNCHANGED <<entries_map, folders_map, store, uuids, last_doc, ret, call, panicked,
                   pair, render, adapter, locks>>

\* One pass of feed.entries.iter().for_each: the id set is locked for the pass.
\* The ArticleUuid is built from the item's timestamps, the entry and the item's id,
\* the four fields ArticleUuid::new of src/article.rs takes (the call in src/feed.rs
\* names only the entry and the id).
merge_item(t) ==
    /\ t.st = "merging"
    /\ LET item == Docs[t.doc][t.pos]
           entry_uuid == t.entry
           article_id == ArticleUuid_new(item.updated, item.published, entry_uuid, item.id)
       IN  IF ~contains(articles[entry_uuid], article_id)
           THEN /\ articles' = [articles EXCEPT ![entry_uuid] = insert(@, article_id)]
                /\ articles_map' = map_insert(articles_map, article_id,
                                        set_belonging(Article_from(item), entry_uuid))
           ELSE UNCHANGED store
    /\ IF t.pos < Len(Docs[t.doc])
       THEN /\ fetches' = Finish(t) (+) SetToBag({[t EXCEPT !.pos = @ + 1]})
            /\ UNCHANGED last_doc
       ELSE /\ fetches' = Finish(t)
            /\ last_doc' = [last_doc EXCEPT ![t.entry] = t.doc]
    /\ UNCHANGED <<graph, uuids, ret, call, panicked, pair, render, adapter, locks>>

\* impl Widget for &Detail: the article shown is marked read
mark_read(i) ==
    /\ articles_map' = [articles_map EXCEPT ![i].value = set_read(@)]
    /\ UNCHANGED <<graph, articles, fetches, uuids, last_doc, ret, call, panicked, pair, render, adapter, locks>>

\* ---------------------------------------------------------------- facade

\* the main thread has not panicked: the program runs
Running == "main" \notin panicked

\* Result::unwrap on an Err in the foreground: the main thread panics
unwrap_failed(c) ==
    /\ panicked' = panicked \cup {"main"}
    /\ ret' = "Err"
    /\ call' = c
    /\ UNCHANGED <<graph, store, fetches, uuids, last_doc, pair, render, adapter, locks>>

\* a facade lookup that returns r and changes nothing
looked_up(c, r) ==
    /\ ret' = r
    /\ call' = c
    /\ UNCHANGED <<graph, store, fetches, uuids, last_doc, panicked, pair, render, adapter, locks>>

\* RssClient::create_entry
create_entry == Running /\ add_orphan_entry

\* RssClient::delete_folder: try_remove_folder_by_id(..).unwrap()
delete_folder(id) ==
    /\ Running
    /\ IF try_get_folder_by_id(id)
       THEN try_remove_folder_by_id(id)
       ELSE unwrap_failed(Call("try_remove_folder_by_id", None, id, None, {}))

\* RssClient::get_folder: try_get_folder_by_id(..).unwrap()
get_folder(id) ==
    /\ Running
    /\ IF try_get_folder_by_id(id)
       THEN looked_up(Call("try_get_folder_by_id", None, id, None, {}), "Some")
       ELSE unwrap_failed(Call("try_get_folder_by_id", None, id, None, {}))

\* RssClient::create_entry_with_folder: try_add_entry_to_folder(..).unwrap(),
\* on a Result that is never an Err
create_entry_with_folder(folder_id) == Running /\ try_add_entry_to_folder(folder_id)

\* RssClient::get_entry: try_get_entry_by_id(..).ok()
get_entry(id) ==
    /\ Running
    /\ looked_up(Call("try_get_entry_by_id", id, None, None, {}),
                 IF try_get_entry_by_id(id) THEN "Some" ELSE "None")

\* RssClient::delete_entry: try_remove_entry_by_id(..).ok(), Ok for Some and Err for None
delete_entry(id) == Running /\ try_remove_entry_by_id(id)

\* RssClient::try_list_entry_by_folder: try_get_entry_ids_by_folder_id(..)?
try_list_entry_by_folder(folder_id) ==
    /\ Running
    /\ looked_up(Call("try_get_entry_ids_by_folder_id", None, folder_id, None,
                      IF try_get_folder_by_id(folder_id)
                      THEN folders_map[folder_id].entries ELSE {}),
                 IF try_get_folder_by_id(folder_id) THEN "Ok" ELSE "Err")

\* RssClient::get_article_by_id: try_get_article_by_id(..).ok()
get_article_by_id(article_id) ==
    /\ Running
    /\ looked_up(Call("try_get_article_by_id", article_id.feed_id, None, None, {}),
                 IF map_get(articles_map, article_id) # 0 THEN "Some" ELSE "None")

\* RssClient::try_start_sync_entry
try_start_sync_entry(id) == Running /\ try_sync_entry_by_id(id)

\* Feed::is_entry_synchronizing, which RssClient::entry_is_syncing calls: None
\* when the id does not resolve, else whether the entry is Syncing
is_entry_synchronizing(id) ==
    IF ~try_get_entry_by_id(id) THEN "None"
    ELSE IF Fetching(id) > 0 THEN "Some(true)" ELSE "Some(false)"

\* entry_is_syncing answering Some(false) for an id that does not resolve
entry_is_syncing_or_false(id) ==
    /\ Running
    /\ looked_up(Call("entry_is_syncing", id, None, None, {}),
                 IF is_entry_synchronizing(id) = "None" THEN "Some(false)"
                 ELSE is_entry_synchronizing(id))

\* RssClient::entry_is_syncing
entry_is_syncing(id) ==
    /\ Running
    /\ looked_up(Call("entry_is_syncing", id, None, None, {}), is_entry_synchronizing(id))

\* RssClient::try_start_sync_all
try_start_sync_all == Running /\ try_sync_all

\* ------------------------------------------------------------ comparing

\* x.cmp(&y) with both implementations
compare ==
    /\ ord = "none"
    /\ ord' = cmp(x, y)
    /\ sub_ord' = subscription_cmp(x, y)
    /\ UNCHANGED <<graph, store, fetches, uuids, last_doc, ret, call, panicked, x, y, render,
                   adapter, locks>>

\* ------------------------------------------------------------------ locks

\* who holds a Mutex: nobody, the callback thread of a fetch (named by the entry
\* it syncs, whose id set it holds whenever it holds anything) or the main thread
Free == 0
Foreground == MaxEntries + 1

\* FeedFlowView::show is not running
Idle == [pc |-> "idle", entry |-> None, ids |-> <<>>]

\* the state of fetch t changes to u
Becomes(t, u) == Finish(t) (+) SetToBag({u})

\* article_id_set.lock(): the pass on the item at t.pos takes the id set
lock_article_id_set(t) ==
    /\ t.st = "merging"
    /\ set_lock[t.entry] = Free
    /\ set_lock' = [set_lock EXCEPT ![t.entry] = t.entry]
    /\ fetches' = Becomes(t, [t EXCEPT !.st = "locked"])
    /\ UNCHANGED <<graph, store, uuids, last_doc, ret, call, panicked, pair, render, adapter,
                   map_lock, reader>>

\* the end of the closure body: the guard of the id set is dropped and
\* for_each goes on to the next item, or the callback returns
end_of_pass(t) ==
    /\ set_lock' = [set_lock EXCEPT ![t.entry] = Free]
    /\ IF t.pos < Len(Docs[t.doc])
       THEN /\ fetches' = Becomes(t, [t EXCEPT !.st = "merging", !.pos = @ + 1])
            /\ UNCHANGED last_doc
       ELSE /\ fetches' = Finish(t)
            /\ last_doc' = [last_doc EXCEPT ![t.entry] = t.doc]

\* the id of the item in hand, as merge_item builds it
ItemId(t) ==
    LET item == Docs[t.doc][t.pos]
    IN  ArticleUuid_new(item.updated, item.published, t.entry, item.id)

\* a pass that gives the id set up as soon as the id is in it
insert_article_id_unlocking(t) ==
    /\ t.st = "locked"
    /\ IF ~contains(articles[t.entry], ItemId(t))
       THEN /\ articles' = [articles EXCEPT ![t.entry] = insert(@, ItemId(t))]
            /\ fetches' = Becomes(t, [t EXCEPT !.st = "inserted"])
            /\ set_lock' = [set_lock EXCEPT ![t.entry] = Free]
            /\ UNCHANGED last_doc
       ELSE /\ end_of_pass(t)
            /\ UNCHANGED articles
    /\ UNCHANGED <<graph, articles_map, uuids, ret, call, panicked, pair, render, adapter,
                   map_lock, reader>>

\* if !article_id_set.contains(..) { article_id_set.insert(..); .. }
insert_article_id(t) ==
    /\ t.st = "locked"
    /\ IF ~contains(articles[t.entry], ItemId(t))
       THEN /\ articles' = [articles EXCEPT ![t.entry] = insert(@, ItemId(t))]
            /\ fetches' = Becomes(t, [t EXCEPT !.st = "inserted"])
            /\ UNCHANGED <<set_lock, last_doc>>
       ELSE /\ end_of_pass(t)
            /\ UNCHANGED articles
    /\ UNCHANGED <<graph, articles_map, uuids, ret, call, panicked, pair, render, adapter,
                   map_lock, reader>>

\* article_map.lock(), with the guard of the id set still held
lock_article_map(t) ==
    /\ t.st = "inserted"
    /\ map_lock = Free
    /\ map_lock' = t.entry
    /\ fetches' = Becomes(t, [t EXCEPT !.st = "storing"])
    /\ UNCHANGED <<graph, store, uuids, last_doc, ret, call, panicked, pair, render, adapter,
                   set_lock, reader>>

\* .insert(article_id, ..); the temporary guard of the map is dropped
insert_article(t) ==
    /\ t.st = "storing"
    /\ articles_map' = map_insert(articles_map, ItemId(t),
                           set_belonging(Article_from(Docs[t.doc][t.pos]), t.entry))
    /\ map_lock' = Free
    /\ fetches' = Becomes(t, [t EXCEPT !.st = "stored"])
    /\ UNCHANGED <<graph, articles, uuids, last_doc, ret, call, panicked, pair, render, adapter,
                   set_lock, reader>>

\* the closure body ends after the insert
unlock_article_id_set(t) ==
    /\ t.st = "stored"
    /\ end_of_pass(t)
    /\ UNCHANGED <<graph, store, uuids, ret, call, panicked, pair, render, adapter,
                   map_lock, reader>>

\* FeedFlowView::show on a live entry: try_get_all_article_ids_by_entry_id
\* takes the id set of the entry
show_lock_ids(e) ==
    /\ Running
    /\ reader.pc = "idle"
    /\ try_get_entry_by_id(e)
    /\ set_lock[e] = Free
    /\ set_lock' = [set_lock EXCEPT ![e] = Foreground]
    /\ reader' = [pc |-> "ids", entry |-> e, ids |-> <<>>]
    /\ UNCHANGED <<graph, store, fetches, uuids, last_doc, ret, call, panicked, pair, render,
                   adapter, map_lock>>

\* .iter().map(ArticleUuid::clone).collect(): the ids are copied, the guard dropped
show_ids ==
    /\ reader.pc = "ids"
    /\ set_lock' = [set_lock EXCEPT ![reader.entry] = Free]
    /\ reader' = IF articles[reader.entry] = <<>> THEN Idle
                 ELSE [reader EXCEPT !.pc = "lookup", !.ids = articles[reader.entry]]
    /\ ret' = "Ok"
    /\ call' = Call("try_get_all_article_ids_by_entry_id", reader.entry, None, None, {})
    /\ UNCHANGED <<graph, store, fetches, uuids, last_doc, panicked, pair, render, adapter,
                   map_lock>>

\* get_article_by_id on the next copied id: try_get_article_by_id takes the map
show_lock_map ==
    /\ reader.pc = "lookup"
    /\ map_lock = Free
    /\ map_lock' = Foreground
    /\ reader' = [reader EXCEPT !.pc = "get"]
    /\ UNCHANGED <<graph, store, fetches, uuids, last_doc, ret, call, panicked, pair, render,
                   adapter, set_lock>>

\* the lookup of show with the guard of the map kept after the last id
show_get_keeping_lock ==
    /\ reader.pc = "get"
    /\ call' = Call("try_get_article_by_id", reader.entry, None, None, {})
    /\ IF map_get(articles_map, Head(reader.ids)) = 0
       THEN /\ ret' = "Err"
            /\ panicked' = panicked \cup {"main"}
            /\ reader' = Idle
            /\ map_lock' = Free
       ELSE /\ ret' = "Ok"
            /\ reader' = IF Tail(reader.ids) = <<>> THEN Idle
                         ELSE [reader EXCEPT !.pc = "lookup", !.ids = Tail(@)]
            /\ map_lock' = IF Tail(reader.ids) = <<>> THEN Foreground ELSE Free
            /\ UNCHANGED panicked
    /\ UNCHANGED <<graph, store, fetches, uuids, last_doc, pair, render, adapter, set_lock>>

\* .get(id).map(Arc::clone).ok_or(..), the guard dropped, then .unwrap() in show:
\* an id that is not in the map ends the main thread
show_get ==
    /\ reader.pc = "get"
    /\ map_lock' = Free
    /\ call' = Call("try_get_article_by_id", reader.entry, None, None, {})
    /\ IF map_get(articles_map, Head(reader.ids)) = 0
       THEN /\ ret' = "Err"
            /\ panicked' = panicked \cup {"main"}
            /\ reader' = Idle
       ELSE /\ ret' = "Ok"
            /\ reader' = IF Tail(reader.ids) = <<>> THEN Idle
                         ELSE [reader EXCEPT !.pc = "lookup", !.ids = Tail(@)]
            /\ UNCHANGED panicked
    /\ UNCHANGED <<graph, store, fetches, uuids, last_doc, pair, render, adapter, set_lock>>

\* --------------------------------------------------------- article display

\* The nodes of a parsed summary that from_article tells apart: a text node, a
\* text node of whitespace only, <img> with or without a src attribute, and the
\* elements <p> and <pre> with their children. DomForests(n) are the node
\* lists of n nodes in all.
Leaf(name, src) == [name |-> name, src |-> src, kids |-> <<>>]

RECURSIVE DomForests(_)
DomForests(n) ==
    IF n = 0 THEN {<<>>}
    ELSE UNION {{<<leaf>> \o r :
                     leaf \in {Leaf("text", FALSE), Leaf("blank", FALSE),
                               Leaf("img", TRUE), Leaf("img", FALSE)},
                     r \in DomForests(n - 1)}
                \cup UNION {{<<[name |-> tag, src |-> FALSE, kids |-> c]>> \o r :
                                 tag \in {"p", "pre"},
                                 c \in DomForests(k - 1), r \in DomForests(n - k)} :
                                k \in 1..n}}

Fragments == UNION {DomForests(n) : n \in 0..MaxDom}

\* scraper::Node::Element, as opposed to scraper::Node::Text
IsElement(node) == node.name \notin {"text", "blank"}

\* ego_tree's traverse(): Edge::Open(node), the edges of its children, Edge::Close(node)
RECURSIVE traverse(_)
traverse(nodes) ==
    IF nodes = <<>> THEN <<>>
    ELSE <<[open |-> TRUE, node |-> Head(nodes)]>> \o traverse(Head(nodes).kids)
         \o <<[open |-> FALSE, node |-> Head(nodes)]>> \o traverse(Tail(nodes))

\* fragment.root_element().traverse()
Edges == traverse(<<[name |-> "html", src |-> FALSE, kids |-> fragment]>>)

\* Element::new(): typ Others, no text, no image source; text is "none", or how
\* the text of the node was taken over: "normalised" or "raw"
Element_new == [typ |-> "Others", newline |-> FALSE, text |-> "none", src |-> FALSE]

Last(stack) == stack[Len(stack)]
Pop(stack) == IF stack = <<>> THEN <<>> ELSE SubSeq(stack, 1, Len(stack) - 1)

\* the Text arm of from_article on a text that is not blank
text_element(element, tags) ==
    [element EXCEPT !.text = IF \A i \in DOMAIN tags : tags[i] # "pre"
                              THEN "normalised" ELSE "raw"]

\* the Element arm of from_article: the style of the tag on top of the parent's
tag_element(element, node) ==
    LET typed == IF node.name = "p" THEN [element EXCEPT !.typ = "Paragraph"]
                 ELSE IF node.name = "img"
                      THEN [element EXCEPT !.typ = "Image", !.src = node.src]
                      ELSE element
    IN  IF node.name \in {"p", "pre"} THEN [typed EXCEPT !.newline = TRUE] ELSE typed

\* Edge::Close(node): element_stack.pop() for an Element
close ==
    /\ element_stack' = IF IsElement(Edges[visited + 1].node)
                        THEN Pop(element_stack) ELSE element_stack
    /\ UNCHANGED <<dom_stack, elements, panicked>>

\* Edge::Open(node)
open ==
    LET node == Edges[visited + 1].node
    IN  IF node.name = "blank"
        THEN UNCHANGED <<dom_stack, element_stack, elements, panicked>>
        ELSE IF element_stack = <<>>
        THEN /\ panicked' = panicked \cup {"main"}
             /\ dom_stack' = IF IsElement(node) THEN Append(dom_stack, node.name)
                             ELSE dom_stack
             /\ UNCHANGED <<element_stack, elements>>
        ELSE IF node.name = "text"
        THEN /\ elements' = Append(elements, text_element(Last(element_stack), dom_stack))
             /\ UNCHANGED <<dom_stack, element_stack, panicked>>
        ELSE /\ dom_stack' = Append(dom_stack, node.name)
             /\ element_stack' = Append(element_stack, tag_element(Last(element_stack), node))
             /\ elements' = IF node.name = "img"
                            THEN Append(elements, tag_element(Last(element_stack), node))
                            ELSE elements
             /\ UNCHANGED panicked

\* Builder::from_article: one pass of the loop over the edges; after the last
\* edge the elements go to the Detail widget
from_article ==
    /\ Running
    /\ detail = "build"
    /\ IF Edges[visited + 1].open THEN open ELSE close
    /\ visited' = visited + 1
    /\ detail' = IF visited + 1 = Len(Edges) THEN "outer" ELSE "build"
    /\ UNCHANGED <<graph, store, fetches, uuids, last_doc, ret, call, pair, adapter, locks,
                   fragment, idx>>

\* Detail: while idx < elements_len
ui_outer ==
    /\ detail = "outer"
    /\ detail' = IF idx < Len(elements) THEN "inline" ELSE "done"
    /\ UNCHANGED <<graph, store, fetches, uuids, last_doc, ret, call, panicked, pair, adapter,
                   locks, fragment, visited, dom_stack, element_stack, elements, idx>>

\* Detail: one pass of the loop inside horizontal_wrapped; elements.get(idx) is
\* None past the end, an Image breaks, any other element is shown
ui_inline ==
    /\ detail = "inline"
    /\ IF idx >= Len(elements) \/ elements[idx + 1].typ = "Image"
       THEN /\ detail' = "images"
            /\ UNCHANGED idx
       ELSE /\ idx' = idx + 1
            /\ UNCHANGED detail
    /\ UNCHANGED <<graph, store, fetches, uuids, last_doc, ret, call, panicked, pair, adapter,
                   locks, fragment, visited, dom_stack, element_stack, elements>>

\* Detail: one pass of the loop inside vertical_centered; an element that is no
\* Image breaks, an Image with a source is shown and idx += 1, an Image
\* without one leaves idx as it is
ui_images ==
    /\ detail = "images"
    /\ IF idx >= Len(elements) \/ elements[idx + 1].typ # "Image"
       THEN /\ detail' = "outer"
            /\ UNCHANGED idx
       ELSE IF elements[idx + 1].src
       THEN /\ idx' = idx + 1
            /\ UNCHANGED detail
       ELSE UNCHANGED <<idx, detail>>
    /\ UNCHANGED <<graph, store, fetches, uuids, last_doc, ret, call, panicked, pair, adapter,
                   locks, fragment, visited, dom_stack, element_stack, elements>>

\* ------------------------------------------------------------ OPML adapter

\* The URL strings of a document: one that Url::parse prints as it is written,
\* one that parses and prints in another (the normal) form, one that does not parse
Normal == 1
Loose == 2
Invalid == 3
UrlStrings == {Normal, Loose, Invalid}

\* Option::None and Some(v) of the document's head
Some(v) == <<v>>

\* the xmlUrl and htmlUrl attributes of an outline
OutlineUrls ==
    ({None, Normal} \X {None, Normal}) \cup ((UrlStrings \ {Normal}) \X {None})

\* struct opml::Outline: the fields the adapter reads; ForestsOf(n) are the
\* outline lists of n outlines in all, nested to any depth
RECURSIVE ForestsOf(_)
ForestsOf(n) ==
    IF n = 0 THEN {<<>>}
    ELSE UNION {{<<[text |-> 1, title |-> 1, xml_url |-> u[1], html_url |-> u[2],
                    outlines |-> c]>> \o r :
                     u \in OutlineUrls,
                     c \in ForestsOf(k - 1), r \in ForestsOf(n - k)} : k \in 1..n}

\* struct opml::OPML { version, head, body }
Documents ==
    UNION {[version : {2}, head : {<<>>, Some([title |-> 1])}, body : ForestsOf(n)] :
               n \in 0..MaxNodes}

EmptyDocument == [version |-> 2, head |-> <<>>, body |-> <<>>]
EmptyOpml == [version |-> 2, head |-> <<>>, body |-> <<>>]

\* value.as_ref().and_then(|u| Url::parse(u).ok()): the Url, which prints in
\* its normal form
Url_parse(u) == IF u = None \/ u = Invalid THEN None ELSE Normal

\* impl From<&opml::Outline> for Entry
OpmlEntry_from(value) ==
    [kind |-> "Entry", text |-> value.text, title |-> value.title,
     xml_url |-> Url_parse(value.xml_url), html_url |-> Url_parse(value.html_url)]

\* flatten_nested_folder that takes the entries among the direct children only
flatten_children(outline) ==
    IF outline.xml_url # None THEN <<OpmlEntry_from(outline)>>
    ELSE LET RECURSIVE cat(_)
             cat(i) == IF i > Len(outline.outlines) THEN <<>>
                       ELSE (IF outline.outlines[i].xml_url # None
                             THEN <<OpmlEntry_from(outline.outlines[i])>>
                             ELSE <<>>) \o cat(i + 1)
         IN  cat(1)

\* Opml::flatten_nested_folder
RECURSIVE flatten_nested_folder(_)
flatten_nested_folder(outline) ==
    IF outline.xml_url # None THEN <<OpmlEntry_from(outline)>>
    ELSE LET RECURSIVE cat(_)
             cat(i) == IF i > Len(outline.outlines) THEN <<>>
                       ELSE flatten_nested_folder(outline.outlines[i]) \o cat(i + 1)
         IN  cat(1)

\* impl From<&opml::Outline> for Folder
OpmlFolder_from(value) ==
    [kind |-> "Folder", text |-> value.text, title |-> value.title,
     entries |-> flatten_nested_folder(value)]

\* impl From<&opml::Outline> for Outline: an entry or a folder?
Outline_from(value) ==
    IF value.xml_url # None THEN OpmlEntry_from(value) ELSE OpmlFolder_from(value)

\* impl From<&opml::Body> for Body
Body_from(outlines) == [i \in DOMAIN outlines |-> Outline_from(outlines[i])]

\* impl From<&opml::Head> for Head, mapped over the Option
Head_from(head) == [i \in DOMAIN head |-> [title |-> head[i].title]]

\* impl From<&OPML> for Opml
Opml_from(value) ==
    [version |-> value.version, head |-> Head_from(value.head), body |-> Body_from(value.body)]

\* impl From<&Entry> for opml::Outline
Outline_of_entry(value) ==
    [text |-> value.text, title |-> value.title, xml_url |-> value.xml_url,
     html_url |-> value.html_url, outlines |-> <<>>]

\* From<&Folder> for opml::Outline that leaves the folder's entries out
Outline_of_folder_alone(value) ==
    [text |-> value.text, title |-> value.title, xml_url |-> None, html_url |-> None,
     outlines |-> <<>>]

\* impl From<&Folder> for opml::Outline
Outline_of_folder(value) ==
    [text |-> value.text, title |-> value.title, xml_url |-> None, html_url |-> None,
     outlines |-> [i \in DOMAIN value.entries |-> Outline_of_entry(value.entries[i])]]

\* impl From<&Outline> for opml::Outline
Outline_of(value) ==
    IF value.kind = "Entry" THEN Outline_of_entry(value) ELSE Outline_of_folder(value)

\* impl From<&Head> for opml::Head, mapped over the Option
Head_of(head) == [i \in DOMAIN head |-> [title |-> head[i].title]]

\* impl From<&Opml> for OPML
OPML_from(value) ==
    [version |-> value.version, head |-> Head_of(value.head),
     body |-> [i \in DOMAIN value.body |-> Outline_of(value.body[i])]]

\* Opml::try_from_str: the document read is converted to an Opml
try_from_str ==
    /\ stage = "read"
    /\ opml' = Opml_from(document)
    /\ stage' = "parsed"
    /\ call' = Call("try_from_str", None, None, None, {})
    /\ ret' = "Ok"
    /\ UNCHANGED <<graph, store, fetches, uuids, last_doc, panicked, locks, pair, render, document, dumped>>

\* Opml::try_dump: the Opml is converted to the document to write
try_dump ==
    /\ stage = "parsed"
    /\ dumped' = OPML_from(opml)
    /\ stage' = "dumped"
    /\ call' = Call("try_dump", None, None, None, {})
    /\ ret' = "Ok"
    /\ UNCHANGED <<graph, store, fetches, uuids, last_doc, panicked, locks, pair, render, document, opml>>

\* Entry::try_from(opml::Entry) returns Ok: the entry has a feed URL
HasXmlUrl(e) == e.xml_url # None

\* the outlines as the loop of Feed::try_from reads them: an entry, or a folder
\* and the number of its entries
Shape(body) ==
    [i \in DOMAIN body |->
        IF body[i].kind = "Folder"
        THEN [folder |-> TRUE, n |-> Len(body[i].entries)]
        ELSE [folder |-> FALSE, n |-> 0]]

\* impl TryFrom<opml::Opml> for Feed: Err at the first entry without a feed
\* URL, else the Feed of the loop over the outlines
Feed_try_from ==
    /\ stage \in {"parsed", "dumped"}
    /\ IF \A i \in DOMAIN opml.body :
              IF opml.body[i].kind = "Entry" THEN HasXmlUrl(opml.body[i])
              ELSE \A j \in DOMAIN opml.body[i].entries : HasXmlUrl(opml.body[i].entries[j])
       THEN LET feed == TryFrom(Shape(opml.body), 1, EmptyFeed)
            IN  /\ entries_map' = feed.entries_map
                /\ folders_map' = feed.folders_map
                /\ orphans' = feed.orphans
                /\ uuids' = feed.uuids
                /\ ret' = "Ok"
                /\ stage' = "built"
       ELSE /\ ret' = "Err"
            /\ stage' = "failed"
            /\ UNCHANGED <<graph, uuids>>
    /\ call' = Call("try_from", None, None, None, {})
    /\ UNCHANGED <<store, fetches, last_doc, panicked, locks, pair, render, document, opml, dumped>>

\* the orders in which the iteration over a HashSet or over the keys of a
\* HashMap can yield the elements of S
Orders(S) == {s \in [1..Cardinality(S) -> S] : \A e \in S : \E i \in DOMAIN s : s[i] = e}

\* impl From<feed::Entry> for Entry: the outline of the entry with this EntryUuid
Entry_of(entry_id) == [kind |-> "Entry", uuid |-> entry_id]

\* impl From<feed::Feed> for Opml: the orphans, then the folders with their
\* entries; the Feed is consumed.  try_get_entry_by_id(..).unwrap() panics on
\* an id of the orphan set or of a member set that is no key of entries_map.
Opml_of_feed ==
    /\ Running
    /\ stage = "feed"
    /\ call' = Call("Opml::from", None, None, None, {})
    /\ IF \E e \in orphans \cup UNION {folders_map[f].entries : f \in DOMAIN folders_map} :
              ~try_get_entry_by_id(e)
       THEN /\ panicked' = panicked \cup {"main"}
            /\ ret' = "Err"
            /\ UNCHANGED <<opml, stage>>
       ELSE /\ \E os \in Orders(orphans), fs \in Orders(DOMAIN folders_map) :
               \E es \in [DOMAIN folders_map -> UNION {Orders(folders_map[f].entries) :
                                                          f \in DOMAIN folders_map}] :
                   /\ \A f \in DOMAIN folders_map : es[f] \in Orders(folders_map[f].entries)
                   /\ opml' = [version |-> 2, head |-> <<>>,
                               body |-> [i \in DOMAIN os |-> Entry_of(os[i])] \o
                                        [i \in DOMAIN fs |->
                                            [kind |-> "Folder", uuid |-> fs[i],
                                             entries |-> [j \in DOMAIN es[fs[i]] |->
                                                             Entry_of(es[fs[i]][j])]]]]
            /\ stage' = "exported"
            /\ ret' = "Ok"
            /\ UNCHANGED panicked
    /\ UNCHANGED <<graph, store, fetches, uuids, last_doc, locks, pair, render, document, dumped>>

\* --------------------------------------------------------- specifications

InitFeed(body) ==
    LET feed == TryFrom(body, 1, EmptyFeed)
    IN  /\ entries_map = feed.entries_map
        /\ folders_map = feed.folders_map
        /\ orphans = feed.orphans
        /\ uuids = feed.uuids
        /\ articles = [e \in EntryUuids |-> <<>>]
        /\ articles_map = <<>>
        /\ fetches = EmptyBag
        /\ last_doc = [e \in EntryUuids |-> 0]
        /\ ret = "Ok"
        /\ call = Call("try_from", None, None, None, {})
        /\ panicked = {}
        /\ set_lock = [e \in EntryUuids |-> Free]
        /\ map_lock = Free
        /\ reader = Idle

NoPair ==
    /\ x = ArticleUuid_new(None, None, 1, 1)
    /\ y = ArticleUuid_new(None, None, 1, 1)
    /\ ord = "none"
    /\ sub_ord = "none"

\* the Feed is live and no OPML document is being converted
NoDocument ==
    /\ document = EmptyDocument
    /\ opml = EmptyOpml
    /\ dumped = EmptyDocument
    /\ stage = "feed"

\* no article is open
NoArticle ==
    /\ fragment = <<>>
    /\ visited = 0
    /\ dom_stack = <<>>
    /\ element_stack = <<>>
    /\ elements = <<>>
    /\ idx = 0
    /\ detail = "none"

\* a Feed built from any of the OPML bodies
Init == NoPair /\ NoDocument /\ NoArticle /\ \E body \in Opmls : InitFeed(body)

\* an OPML body of one entry followed by one folder that holds one entry
SyncBody == <<[folder |-> FALSE, n |-> 0], [folder |-> TRUE, n |-> 1]>>

\* the Feed built from SyncBody
InitSync == NoPair /\ NoDocument /\ NoArticle /\ InitFeed(SyncBody)

Structure ==
    \/ add_orphan_entry
    \/ \E f \in FolderUuids : try_add_entry_to_folder(f)
    \/ \E e \in EntryUuids : try_remove_entry_by_id(e)
    \/ \E f \in FolderUuids : try_remove_folder_by_id(f)
    \/ \E e \in EntryUuids, f \in FolderUuids \cup {None} : try_move_entry_to_folder(e, f)

Sync ==
    \/ \E e \in EntryUuids : try_sync_entry_by_id(e)
    \/ try_sync_all
    \/ \E t \in BagToSet(fetches) : fetch_failed(t)
    \/ \E t \in BagToSet(fetches) : parse_failed(t)
    \/ \E t \in BagToSet(fetches), d \in DOMAIN Docs : parsed(t, d)
    \/ \E t \in BagToSet(fetches) : merge_item(t)

Read == \E i \in DOMAIN articles_map : mark_read(i)

\* the structural calls of the foreground on a Feed built from an OPML body
SpecGraph == Init /\ [][Structure]_vars

\* sync triggers, the callbacks of the fetches and the reader, on such a Feed
SpecSync == InitSync /\ [][Sync]_vars

\* the comparators on every pair of ArticleUuids
InitOrd ==
    /\ InitFeed(<<>>)
    /\ NoDocument
    /\ NoArticle
    /\ x \in ArticleUuids
    /\ y \in ArticleUuids
    /\ ord = "none"
    /\ sub_ord = "none"

SpecOrd == InitOrd /\ [][compare]_vars

Facade ==
    \/ create_entry
    \/ \E f \in FolderUuids : delete_folder(f)
    \/ \E f \in FolderUuids : get_folder(f)
    \/ \E f \in FolderUuids : create_entry_with_folder(f)
    \/ \E e \in EntryUuids : get_entry(e)
    \/ \E e \in EntryUuids : delete_entry(e)
    \/ \E f \in FolderUuids : try_list_entry_by_folder(f)
    \/ \E e \in EntryUuids : get_article_by_id(ArticleUuid_new(1, 1, e, 1))
    \/ \E e \in EntryUuids : try_start_sync_entry(e)
    \/ try_start_sync_all
    \/ \E e \in EntryUuids : entry_is_syncing(e)

\* the calls of the presentation layer on the facade of such a Feed
SpecFacade == Init /\ [][Facade]_vars

\* the sync triggers and the callbacks of fetches that fail
Trigger ==
    \/ \E e \in EntryUuids : try_sync_entry_by_id(e)
    \/ try_sync_all
    \/ \E t \in BagToSet(fetches) : fetch_failed(t)
    \/ \E t \in BagToSet(fetches) : parse_failed(t)

\* sync triggers and failing fetches on a Feed built from any of the OPML bodies
SpecTrigger == Init /\ [][Trigger]_vars

\* the syncing query beside the calls and callbacks that change its answer
Query ==
    \/ \E e \in EntryUuids : entry_is_syncing(e)
    \/ \E e \in EntryUuids : try_start_sync_entry(e)
    \/ \E e \in EntryUuids : delete_entry(e)
    \/ \E t \in BagToSet(fetches) : fetch_failed(t)

\* the presentation layer polls the syncing state of the entries of such a Feed
SpecQuery == Init /\ [][Query]_vars

\* structural calls and lookups of the foreground beside the callback of a
\* fetch, where the first entry is synced when no fetch is in flight
Mixed ==
    \/ add_orphan_entry
    \/ \E f \in FolderUuids : try_add_entry_to_folder(f)
    \/ \E e \in EntryUuids, f \in FolderUuids \cup {None} : try_move_entry_to_folder(e, f)
    \/ \E e \in EntryUuids : try_remove_entry_by_id(e)
    \/ \E e \in EntryUuids : get_entry(e)
    \/ \E f \in FolderUuids : try_list_entry_by_folder(f)
    \/ fetches = EmptyBag /\ try_sync_entry_by_id(1)
    \/ \E t \in BagToSet(fetches) : fetch_failed(t)
    \/ \E t \in BagToSet(fetches) : parse_failed(t)
    \/ \E t \in BagToSet(fetches), d \in DOMAIN Docs : parsed(t, d)
    \/ \E t \in BagToSet(fetches) : merge_item(t)

\* the Feed built from SyncBody is edited while its entries sync
SpecMixed == InitSync /\ [][Mixed]_vars

\* an OPML document has been read; no Feed is built yet
InitOpml ==
    /\ NoPair
    /\ InitFeed(<<>>)
    /\ NoArticle
    /\ document \in Documents
    /\ opml = EmptyOpml
    /\ dumped = EmptyDocument
    /\ stage = "read"

Import ==
    \/ try_from_str
    \/ try_dump
    \/ Feed_try_from

\* the document is converted to an Opml, which is dumped and turned into a Feed
SpecOpml == InitOpml /\ [][Import]_vars

\* the structural calls on the Feed until it is exported
Export ==
    \/ stage = "feed" /\ Structure
    \/ Opml_of_feed

\* a Feed built from an OPML body is edited and then exported
SpecExport == Init /\ [][Export]_vars

\* the reader beside the syncs that succeed
Reading ==
    \/ \E e \in EntryUuids : try_sync_entry_by_id(e)
    \/ \E t \in BagToSet(fetches), d \in DOMAIN Docs : parsed(t, d)
    \/ \E t \in BagToSet(fetches) : merge_item(t)
    \/ Read

\* articles are synced and shown on the Feed built from SyncBody
SpecRead == InitSync /\ [][Reading]_vars

\* the callbacks pass by pass and lock by lock, beside the view of an entry,
\* where an entry is synced as long as no callback of it has completed
Locking ==
    \/ \E e \in EntryUuids : last_doc[e] = 0 /\ try_sync_entry_by_id(e)
    \/ \E t \in BagToSet(fetches), d \in DOMAIN Docs : parsed(t, d)
    \/ \E t \in BagToSet(fetches) : lock_article_id_set(t)
    \/ \E t \in BagToSet(fetches) : insert_article_id(t)
    \/ \E t \in BagToSet(fetches) : lock_article_map(t)
    \/ \E t \in BagToSet(fetches) : insert_article(t)
    \/ \E t \in BagToSet(fetches) : unlock_article_id_set(t)
    \/ \E e \in EntryUuids : show_lock_ids(e)
    \/ show_ids
    \/ show_lock_map
    \/ show_get

\* the entries of the Feed built from SyncBody sync while one of them is shown
SpecLocks == InitSync /\ [][Locking]_vars

\* from_article is called on the summary of an article: the stacks are new
InitArticle ==
    /\ NoPair
    /\ NoDocument
    /\ InitFeed(<<>>)
    /\ fragment \in Fragments
    /\ visited = 0
    /\ dom_stack = <<>>
    /\ element_stack = <<Element_new>>
    /\ elements = <<>>
    /\ idx = 0
    /\ detail = "build"

Display ==
    \/ from_article
    \/ ui_outer
    \/ ui_inline
    \/ ui_images

\* an article is built from its summary and shown by Detail; the main thread
\* goes on running the call it is in
SpecDisplay == InitArticle /\ [][Display]_vars /\ WF_vars(Display)

\* ----------------------------------------------------------------- claims

\* Feed::try_get_all_article_ids_by_entry_id: the id set in iteration order
try_get_all_article_ids_by_entry_id(entry_id) == articles[entry_id]

\* the member sets of all folders
Members == UNION {folders_map[f].entries : f \in DOMAIN folders_map}

\* the callback thread of fetch t ends in this step
Completes(t) ==
    \/ fetch_failed(t)
    \/ parse_failed(t)
    \/ t.st = "merging" /\ t.pos = Len(Docs[t.doc]) /\ merge_item(t)

\* the ArticleUuid the merge loop builds for the item fetch t is at
ItemUuid(t) ==
    LET item == Docs[t.doc][t.pos]
    IN  ArticleUuid_new(item.updated, item.published, t.entry, item.id)

Range(s) == {s[i] : i \in DOMAIN s}

Reverse(o) == IF o = "Less" THEN "Greater" ELSE IF o = "Greater" THEN "Less" ELSE o

\* One timestamp field of the section 3 order: descending when both ids have it,
\* an id lacking it after an id having it, Equal when it decides nothing
RefField(a, b) ==
    IF a # None /\ b # None THEN IntCmp(b, a)
    ELSE IF a # None THEN "Less"
    ELSE IF b # None THEN "Greater"
    ELSE "Equal"

\* The section 3 reference comparator: updated, then published, then the per-feed id
RefCmp(a, b) ==
    IF RefField(a.updated, b.updated) # "Equal" THEN RefField(a.updated, b.updated)
    ELSE IF RefField(a.published, b.published) # "Equal"
    THEN RefField(a.published, b.published)
    ELSE IntCmp(a.id, b.id)

\* C1: in every state the structural calls reach, every EntryUuid in a folder's
\* member set resolves to an entry whose belong_to is that folder, and every entry
\* whose belong_to is Some(f) is in the member set of an existing folder f.
C1_Membership ==
    /\ \A f \in DOMAIN folders_map : \A e \in folders_map[f].entries :
           e \in DOMAIN entries_map /\ entries_map[e].belong_to = f
    /\ \A e \in DOMAIN entries_map :
           entries_map[e].belong_to # None =>
               /\ entries_map[e].belong_to \in DOMAIN folders_map
               /\ e \in folders_map[entries_map[e].belong_to].entries

\* C2: the orphan set and the folders' member sets are pairwise disjoint and
\* their union is the key set of the entry map.
C2_Partition ==
    /\ orphans \cap Members = {}
    /\ \A f, g \in DOMAIN folders_map :
           f # g => folders_map[f].entries \cap folders_map[g].entries = {}
    /\ orphans \cup Members = DOMAIN entries_map

\* C3: for every entry at most one fetch is in flight (a sync call made while a
\* fetch of the entry is in flight schedules no second one).
C3_OneFetchInFlight == \A e \in EntryUuids : Fetching(e) <= 1

\* C4: when the callback of an entry's fetch has run to its end, with data, with
\* a transport failure or with a body that does not parse, the entry is Idle:
\* no fetch of it is in flight.
C4_CompletionLeadsToIdle ==
    [][\A t \in BagToSet(fetches) :
           Completes(t) => InFlight(t.entry)' = {}]_vars

C6_InsertedIffAbsent ==
    [][\A t \in BagToSet(fetches) :
           (t.st = "merging" /\ merge_item(t)) =>
               ((articles'[t.entry] # articles[t.entry])
                    <=> (ItemUuid(t) \notin Range(articles[t.entry])))]_vars

\* C7: the listing of an entry's articles is strictly descending in the section 3
\* comparator: each id strictly precedes the next.
C7_ListingDescending ==
    \A e \in DOMAIN entries_map :
        LET ids == try_get_all_article_ids_by_entry_id(e)
        IN  \A i \in 1..(Len(ids) - 1) : RefCmp(ids[i], ids[i + 1]) = "Less"

\* The pairs on which the section 3 text leaves no choice: both ids have differing
\* updated timestamps; neither has one and both have differing published
\* timestamps; exactly one of the two has no timestamp at all; or the timestamps
\* of the two are the same, so that the per-feed id decides.
Definite(a, b) ==
    \/ a.updated # None /\ b.updated # None /\ a.updated # b.updated
    \/ /\ a.updated = None /\ b.updated = None
       /\ a.published # None /\ b.published # None /\ a.published # b.published
    \/ (get_time_fn(a) = None) # (get_time_fn(b) = None)
    \/ a.updated = b.updated /\ a.published = b.published

\* C8: for every pair of ArticleUuids the Ord comparison is the section 3
\* reference comparator (stated on the pairs where the text leaves no choice).
C8_OrdIsReference == (ord # "none" /\ Definite(x, y)) => ord = RefCmp(x, y)

\* C9: the Ord comparison is Equal exactly on structurally equal ids, cmp(y, x) is
\* the reverse of cmp(x, y), and the order is transitive.
C9_StrictTotalOrder ==
    ord # "none" =>
        /\ (ord = "Equal") <=> (x = y)
        /\ cmp(y, x) = Reverse(ord)
        /\ \A z \in ArticleUuids :
               (ord = "Less" /\ cmp(y, z) = "Less") => cmp(x, z) = "Less"

\* C10: try_add_entry_to_folder with a folder id that does not resolve returns an
\* error and leaves the entry map, the member sets and the orphan set as they
\* were; with a resolving folder the entry is in the entry map and in the
\* folder's member set afterwards.
C10_AddToFolder ==
    [][\A f \in FolderUuids :
           try_add_entry_to_folder(f) =>
               IF ~try_get_folder_by_id(f)
               THEN ret' = "Err" /\ UNCHANGED graph
               ELSE /\ ret' = "Ok"
                    /\ uuids' \in DOMAIN entries_map'
                    /\ uuids' \in folders_map'[f].entries]_vars

\* the entry of a move, or its target folder, does not resolve
Unresolved(e, f) == ~try_get_entry_by_id(e) \/ (f # None /\ ~try_get_folder_by_id(f))

\* C11: try_move_entry_to_folder returns an error when the entry id is absent or
\* the target folder (when Some) does not resolve, and a move that returns an
\* error leaves the entry map, the member sets and the orphan set as they were.
C11_FailedMoveChangesNothing ==
    [][\A e \in EntryUuids, f \in FolderUuids \cup {None} :
           try_move_entry_to_folder(e, f) =>
               /\ (Unresolved(e, f) => ret' = "Err")
               /\ (ret' = "Err" => UNCHANGED graph)]_vars

\* C12: after a move that returned Ok the entry's belong_to is the target; with a
\* target Some(f) the entry is in f's member set and not in the orphan set, with
\* the target None it is in the orphan set and in no member set.
C12_MovedToTarget ==
    [][\A e \in EntryUuids, f \in FolderUuids \cup {None} :
           (try_move_entry_to_folder(e, f) /\ ret' = "Ok") =>
               /\ entries_map'[e].belong_to = f
               /\ IF f # None
                  THEN e \in folders_map'[f].entries /\ e \notin orphans'
                  ELSE e \in orphans' /\ e \notin Members']_vars

\* C13: a move that returned Ok keeps the key set of the entry map and the set
\* of folders, every entry other than the moved one, and every folder other than
\* the source and the target; member sets and orphan set change in the moved id
\* alone, the orphan set not at all in a move between folders, and a move from
\* orphan to orphan changes nothing.  (The moved entry and the target are the
\* arguments the step records in call.)
C13_MoveFrame ==
    [][(call'.op = "try_move_entry_to_folder" /\ ret' = "Ok") =>
           LET e == call'.entry
               f == call'.folder
           IN  try_move_entry_to_folder(e, f) =>
                   LET old == entries_map[e].belong_to
                   IN  /\ DOMAIN entries_map' = DOMAIN entries_map
                       /\ DOMAIN folders_map' = DOMAIN folders_map
                       /\ \A d \in DOMAIN entries_map \ {e} :
                              entries_map'[d] = entries_map[d]
                       /\ \A g \in DOMAIN folders_map \ {old, f} :
                              folders_map'[g] = folders_map[g]
                       /\ \A g \in DOMAIN folders_map :
                              folders_map'[g].entries \ {e} = folders_map[g].entries \ {e}
                       /\ orphans' \ {e} = orphans \ {e}
                       /\ (old # None /\ f # None) => UNCHANGED orphans
                       /\ (old = None /\ f = None) => UNCHANGED graph]_vars

\* C13 witness: the last call moved an orphan into a folder, and returned Ok, in
\* a Feed that has another folder with a member.
C13_MovedBesideOthers ==
    /\ call.op = "try_move_entry_to_folder"
    /\ ret = "Ok"
    /\ call.old = None
    /\ call.folder # None
    /\ call.entry \in folders_map[call.folder].entries
    /\ \E g \in DOMAIN folders_map \ {call.folder} : folders_map[g].entries # {}

\* C14: try_remove_entry_by_id on an id that is not in the entry map returns an
\* error and changes nothing; otherwise it returns Ok, the id is afterwards in
\* neither the entry map, the orphan set nor any member set, and every other
\* entry, every other membership and the set of folders are as before.
C14_RemoveEntry ==
    [][\A id \in EntryUuids :
           (call'.op = "try_remove_entry_by_id" /\ try_remove_entry_by_id(id)) =>
               IF ~try_get_entry_by_id(id)
               THEN ret' = "Err" /\ UNCHANGED graph
               ELSE /\ ret' = "Ok"
                    /\ id \notin orphans' \cup Members'
                    /\ DOMAIN entries_map' = DOMAIN entries_map \ {id}
                    /\ \A d \in DOMAIN entries_map' : entries_map'[d] = entries_map[d]
                    /\ DOMAIN folders_map' = DOMAIN folders_map
                    /\ \A g \in DOMAIN folders_map :
                           folders_map'[g].entries = folders_map[g].entries \ {id}
                    /\ orphans' = orphans \ {id}]_vars

\* C14 witness: the last call removed an entry that belonged to a folder which
\* still exists, and another entry is left in the entry map.
C14_RemovedFromFolder ==
    /\ call.op = "try_remove_entry_by_id"
    /\ ret = "Ok"
    /\ call.old \in DOMAIN folders_map
    /\ call.entry \notin DOMAIN entries_map
    /\ DOMAIN entries_map # {}

\* C15: try_remove_folder_by_id on an existing folder removes it from the folder
\* map and its members from the entry map, adds none of them to the orphan set
\* and leaves the orphan set, the other folders and the other entries as they
\* were; on an absent folder it returns an error and changes nothing.
C15_RemoveFolder ==
    [][\A f \in FolderUuids :
           (call'.op = "try_remove_folder_by_id" /\ try_remove_folder_by_id(f)) =>
               IF ~try_get_folder_by_id(f)
               THEN ret' = "Err" /\ UNCHANGED graph
               ELSE /\ ret' = "Ok"
                    /\ DOMAIN folders_map' = DOMAIN folders_map \ {f}
                    /\ \A g \in DOMAIN folders_map' : folders_map'[g] = folders_map[g]
                    /\ DOMAIN entries_map' = DOMAIN entries_map \ folders_map[f].entries
                    /\ \A d \in DOMAIN entries_map' : entries_map'[d] = entries_map[d]
                    /\ orphans' = orphans]_vars

\* C15 witness: the last call removed a folder that had a member, in a Feed that
\* keeps an orphan and another folder.
C15_RemovedWithMembers ==
    /\ call.op = "try_remove_folder_by_id"
    /\ ret = "Ok"
    /\ call.ids # {}
    /\ call.ids \cap DOMAIN entries_map = {}
    /\ orphans # {}
    /\ DOMAIN folders_map # {}

\* C16: no call of the facade panics the main thread; an id that does not
\* resolve comes back to the caller as a returned value.
C16_NeverPanics == Running

\* C17: the callback of a fetch that failed, or whose body is no feed document,
\* changes neither the article collections nor the article map, and no thread
\* ends in a panic.
C17_FailureChangesNothing ==
    [][\A t \in BagToSet(fetches) :
           (fetch_failed(t) \/ parse_failed(t)) =>
               UNCHANGED store /\ UNCHANGED panicked]_vars

\* the entry of the article map found under key, <<>> when there is none
Stored(map, key) == IF map_get(map, key) = 0 THEN <<>> ELSE map[map_get(map, key)]

\* C18: when a merge pass meets an item whose per-feed id an article of the
\* entry has with another updated timestamp, the collection afterwards holds the
\* item's ArticleUuid and the old one, and the old article is stored as before.
C18_RepublishIsDistinct ==
    [][\A t \in BagToSet(fetches) :
           (t.st = "merging" /\ merge_item(t)) =>
               \A old \in Range(articles[t.entry]) :
                   (/\ old.id = ItemUuid(t).id
                    /\ old.updated # None
                    /\ ItemUuid(t).updated # None
                    /\ old.updated # ItemUuid(t).updated) =>
                       /\ ItemUuid(t) \in Range(articles'[t.entry])
                       /\ old \in Range(articles'[t.entry])
                       /\ Stored(articles_map', old) = Stored(articles_map, old)]_vars

\* C19: try_sync_entry_by_id on a resolving entry returns its positive value
\* exactly when no fetch of the entry was in flight, and then one is; when a
\* fetch of the entry was in flight it schedules nothing.
C19_ReturnsWhetherStarted ==
    [][\A e \in EntryUuids :
           (try_sync_entry_by_id(e) /\ try_get_entry_by_id(e)) =>
               /\ (ret' = "Ok") <=> (Fetching(e) = 0)
               /\ IF Fetching(e) = 0 THEN Fetching(e)' = 1 ELSE UNCHANGED fetches]_vars

\* C20: try_sync_all returns Ok, afterwards a fetch of every entry of the entry
\* map is in flight, and an entry that had none has exactly one, not yet answered.
C20_SyncAllStartsEvery ==
    [][try_sync_all =>
           /\ ret' = "Ok"
           /\ \A e \in DOMAIN entries_map :
                  /\ Fetching(e)' >= 1
                  /\ Fetching(e) = 0 =>
                         (Fetching(e)' = 1 /\ CopiesIn(Pending(e), fetches') = 1)]_vars

\* C20 witness: the last call was try_sync_all on a Feed of two or more entries,
\* it returned Ok and a fetch of each of them is in flight.
C20_AllStarted ==
    /\ call.op = "try_sync_all"
    /\ ret = "Ok"
    /\ Cardinality(call.ids) >= 2
    /\ \A e \in call.ids : Fetching(e) >= 1

\* C22: for every entry and every ArticleUuid in its article collection, the
\* Article the article map stores under that id has belong_to = Some(entry).
C22_StoredBelongsToOwner ==
    \A e \in DOMAIN entries_map :
        \A id \in Range(articles[e]) :
            /\ Stored(articles_map, id) # <<>>
            /\ Stored(articles_map, id).value.belong_to = e

\* C23: a merge pass of a callback for one entry changes neither the article
\* collection of another entry nor an article stored for another entry.
C23_OtherEntriesUntouched ==
    [][\A t \in BagToSet(fetches) :
           (t.st = "merging" /\ merge_item(t)) =>
               \A b \in DOMAIN entries_map \ {t.entry} :
                   /\ articles'[b] = articles[b]
                   /\ \A id \in Range(articles[b]) :
                          Stored(articles_map', id) = Stored(articles_map, id)]_vars

\* C24: a newly merged article is unread; an article of an entry's collection
\* whose stored unread flag is false keeps it false in every later state, also
\* when later syncs deliver the same item again.
C24_ReadStaysRead ==
    [][\A e \in DOMAIN entries_map :
           \A id \in Range(articles[e]) :
               (Stored(articles_map, id) # <<>> /\ ~Stored(articles_map, id).value.unread)
                   => (Stored(articles_map', id) # <<>>
                           => ~Stored(articles_map', id).value.unread)]_vars

\* C25: no step but a sync call schedules a fetch, and such a call schedules
\* one fetch of the entry; after a callback that fails, by transport or by
\* parse, no fetch of its entry is in flight (the entry is Idle, so the next
\* sync call on it starts a fetch).
C25_NoRetryIdleAfterFailure ==
    [][/\ \A e \in EntryUuids :
              Fetching(e)' > Fetching(e) =>
                  /\ try_sync_entry_by_id(e) \/ try_sync_all
                  /\ Fetching(e)' = Fetching(e) + 1
       /\ \A t \in BagToSet(fetches) :
              (fetch_failed(t) \/ parse_failed(t)) => Fetching(t.entry)' = 0]_vars

\* C26: add_orphan_entry succeeds; afterwards the returned id, which was no key
\* before, resolves in the entry map to the given entry and is in the orphan
\* set, and every entry, folder and membership present before is unchanged:
\* the entry listing is the previous listing plus the new entry.
C26_AddOrphan ==
    [][(call'.op = "add_orphan_entry" /\ add_orphan_entry) =>
           LET id == call'.entry
           IN  /\ ret' = "Ok"
               /\ id \notin DOMAIN entries_map
               /\ DOMAIN entries_map' = DOMAIN entries_map \cup {id}
               /\ entries_map'[id] = Entry(None)
               /\ \A e \in DOMAIN entries_map : entries_map'[e] = entries_map[e]
               /\ orphans' = orphans \cup {id}
               /\ folders_map' = folders_map
               /\ UNCHANGED store]_vars

\* C26 witness: an orphan was added to a Feed that holds a folder with a member
C26_AddedBesideOthers ==
    /\ call.op = "add_orphan_entry"
    /\ ret = "Ok"
    /\ call.entry \in orphans
    /\ \E f \in DOMAIN folders_map : folders_map[f].entries # {}

RECURSIVE Below(_, _)
Below(o, p) ==
    IF p = <<>> THEN <<o>>
    ELSE IF p[1] \in DOMAIN o.outlines THEN Below(o.outlines[p[1]], Tail(p))
    ELSE <<>>

PathsUpTo == UNION {[1..n -> 1..MaxNodes] : n \in 0..MaxNodes}

\* the paths from outline o to the entries found in it: outlines with a feed
\* URL, at any depth, below outlines without one
EntryPaths(o) ==
    {p \in PathsUpTo :
        /\ Below(o, p) # <<>>
        /\ Below(o, p)[1].xml_url # None
        /\ \A k \in 0..(Len(p) - 1) : Below(o, SubSeq(p, 1, k))[1].xml_url = None}

\* the EntryUuids handed out for the entries of the i-th top-level outline,
\* and the FolderUuid handed out for it
IdsOf(body, i) ==
    LET RECURSIVE before(_)
        before(j) == IF j = 0 THEN 0 ELSE Cardinality(EntryPaths(body[j])) + before(j - 1)
    IN  (before(i - 1) + 1)..before(i)
FolderOf(body, i) == Cardinality({j \in 1..i : body[j].xml_url = None})

\* C28: in the Feed built from a parsed document every top-level entry is an
\* orphan with belong_to None, every entry found at any depth under a top-level
\* folder is in the member set of that folder alone with belong_to the folder's
\* id, and the graph satisfies the membership and partition invariants.
C28_BuiltGraph ==
    stage = "built" =>
        /\ \A i \in DOMAIN document.body :
               LET o == document.body[i]
                   ids == IdsOf(document.body, i)
                   f == FolderOf(document.body, i)
               IN  /\ ids \subseteq DOMAIN entries_map
                   /\ IF o.xml_url # None
                      THEN /\ Cardinality(ids) = 1
                           /\ ids \subseteq orphans
                           /\ ids \cap Members = {}
                           /\ \A e \in ids : entries_map[e].belong_to = None
                      ELSE /\ f \in DOMAIN folders_map
                           /\ folders_map[f].entries = ids
                           /\ ids \cap orphans = {}
                           /\ \A e \in ids : entries_map[e].belong_to = f
                           /\ \A g \in DOMAIN folders_map \ {f} :
                                  ids \cap folders_map[g].entries = {}
        /\ C1_Membership
        /\ C2_Partition

\* C28 witness: a Feed was built from a document whose top-level folder holds
\* an entry inside a nested folder
C28_BuiltFromNested ==
    /\ stage = "built"
    /\ \E i \in DOMAIN document.body :
           /\ document.body[i].xml_url = None
           /\ \E p \in EntryPaths(document.body[i]) : Len(p) >= 2
           /\ folders_map[FolderOf(document.body, i)].entries # {}

\* an outline that is an entry of the data model: a feed URL, URLs written in
\* the form Url::parse prints, no outlines below
IsEntryOutline(o) ==
    /\ o.xml_url = Normal
    /\ o.html_url \in {None, Normal}
    /\ o.outlines = <<>>

\* a document of the two levels of the data model: every top-level outline is
\* an entry, or a folder, without URLs, of entries
TwoLevel(doc) ==
    \A i \in DOMAIN doc.body :
        \/ IsEntryOutline(doc.body[i])
        \/ /\ doc.body[i].xml_url = None
           /\ doc.body[i].html_url = None
           /\ \A j \in DOMAIN doc.body[i].outlines :
                  IsEntryOutline(doc.body[i].outlines[j])

\* C30 as stated: the document dumped from the parsed Opml equals the document
\* parsed (version, head title, outlines with text, title, URLs and nesting),
\* for every document.
C30_Roundtrip == stage = "dumped" => dumped = document

\* C30 amended: the dump equals the document parsed when the document has the
\* two levels of the data model and its URLs are in the form Url::parse prints.
C30_RoundtripTwoLevel == (stage = "dumped" /\ TwoLevel(document)) => dumped = document

\* C30 witness: a two-level document with a top-level entry and a folder that
\* holds an entry was parsed and dumped
C30_DumpedTwoLevel ==
    /\ stage = "dumped"
    /\ TwoLevel(document)
    /\ \E i, j \in DOMAIN document.body :
           /\ document.body[i].xml_url = Normal
           /\ document.body[j].xml_url = None
           /\ document.body[j].outlines # <<>>
    /\ dumped = document

\* the number of outlines of the exported Opml that are the entry e: at top
\* level, and inside the outline of folder f
TopLevel(e) ==
    Cardinality({i \in DOMAIN opml.body : opml.body[i] = Entry_of(e)})
Inside(e, f) ==
    LET RECURSIVE cnt(_)
        cnt(i) == IF i = 0 THEN 0
                  ELSE (IF opml.body[i].kind = "Folder" /\ opml.body[i].uuid = f
                        THEN Cardinality({j \in DOMAIN opml.body[i].entries :
                                             opml.body[i].entries[j] = Entry_of(e)})
                        ELSE 0) + cnt(i - 1)
    IN  cnt(Len(opml.body))
Emitted(e) ==
    LET RECURSIVE sum(_)
        sum(F) == IF F = {} THEN 0
                  ELSE LET f == CHOOSE g \in F : TRUE IN Inside(e, f) + sum(F \ {f})
    IN  TopLevel(e) + sum({opml.body[i].uuid : i \in {j \in DOMAIN opml.body :
                                                          opml.body[j].kind = "Folder"}})

\* C29: the export never panics on an id that does not resolve, and the
\* exported Opml holds every entry of the entry map exactly once, at top level
\* when it is an orphan and else inside the outline of the folder it belongs
\* to, and every folder exactly once.
C29_ExportsEveryEntryOnce ==
    /\ call.op = "Opml::from" => Running
    /\ stage = "exported" =>
           /\ \A e \in DOMAIN entries_map :
                  /\ Emitted(e) = 1
                  /\ IF entries_map[e].belong_to = None THEN TopLevel(e) = 1
                     ELSE Inside(e, entries_map[e].belong_to) = 1
           /\ \A f \in DOMAIN folders_map :
                  Cardinality({i \in DOMAIN opml.body :
                      opml.body[i].kind = "Folder" /\ opml.body[i].uuid = f}) = 1

\* the container entry e is in: folder f when f holds e and e names f, None
\* when e is an orphan that names no folder
InContainer(e, f) ==
    /\ try_get_entry_by_id(e)
    /\ entries_map[e].belong_to = f
    /\ IF f = None THEN e \in orphans
       ELSE try_get_folder_by_id(f) /\ e \in folders_map[f].entries

\* C36: a move of an entry to the container it is in returns Ok and leaves the
\* graph unchanged, and a move that repeats the call before it, same entry and
\* same target, leaves the graph as that call left it and returns what it
\* returned.
C36_MoveIdempotent ==
    [][call'.op = "try_move_entry_to_folder" =>
           LET e == call'.entry
               f == call'.folder
           IN  try_move_entry_to_folder(e, f) =>
                   /\ InContainer(e, f) => (ret' = "Ok" /\ UNCHANGED graph)
                   /\ (call.op = "try_move_entry_to_folder" /\ call.entry = e
                          /\ call.folder = f)
                         => (ret' = ret /\ UNCHANGED graph)]_vars

\* C36 witness: an entry was moved to the folder it is in, which holds
\* another entry beside it
C36_MovedTwice ==
    /\ call.op = "try_move_entry_to_folder"
    /\ call.folder # None
    /\ call.old = call.folder
    /\ ret = "Ok"
    /\ InContainer(call.entry, call.folder)
    /\ Cardinality(folders_map[call.folder].entries) >= 2

\* a step of the callback of fetch t: it fails, it parses the response, or it
\* merges one item
Callback(t) ==
    \/ fetch_failed(t)
    \/ parse_failed(t)
    \/ \E d \in DOMAIN Docs : parsed(t, d)
    \/ merge_item(t)

\* C33: no step of a completion callback changes the folder/entry structure:
\* the entry map with every entry's fields, every folder's member set and the
\* orphan set are after the step what they were before it, whatever foreground
\* calls run between the steps.
C33_CallbackKeepsStructure ==
    [][\A t \in BagToSet(fetches) : Callback(t) => UNCHANGED <<graph, uuids>>]_vars

\* C33 witness: a callback has merged articles into an entry that the
\* foreground moved into a folder while the fetch was in flight
C33_MergedAfterMove ==
    /\ call.op = "try_move_entry_to_folder"
    /\ ret = "Ok"
    /\ call.entry = 1
    /\ call.old = None
    /\ articles[1] # <<>>
    /\ last_doc[1] # 0
    /\ InContainer(1, call.folder)

\* C32: every article in the article map belongs to an entry that is a key of
\* the entry map: the removal of an entry leaves none of its articles in the
\* map, and a callback that runs after its entry was removed adds none.
C32_ArticlesOfLiveEntries ==
    \A i \in DOMAIN articles_map :
        articles_map[i].value.belong_to \in DOMAIN entries_map

\* the ids of entry e that a thread taking the id set now would copy
Observable(e) == IF set_lock[e] = Free THEN Range(articles[e]) ELSE {}

\* C31: whenever the id set of an entry can be taken, between the passes of a
\* running callback too, every id in it is a key of the article map, and so is
\* every id the view has copied and not looked up yet: a reader never holds an
\* id whose article is not stored.
C31_ObservedIdsResolve ==
    /\ \A e \in EntryUuids : \A id \in Observable(e) : Stored(articles_map, id) # <<>>
    /\ \A i \in DOMAIN reader.ids : Stored(articles_map, reader.ids[i]) # <<>>

\* the view looks up ids it copied between two passes of a callback, which
\* has put the id of its next item into the set and not into the map
C31_ReadBetweenPasses ==
    /\ reader.pc = "get"
    /\ \E t \in BagToSet(fetches) :
          /\ t.entry = reader.entry
          /\ t.st = "inserted"
          /\ t.pos > 1
          /\ Stored(articles_map, ItemId(t)) = <<>>

\* some thread is inside a pass or inside show
Busy == reader.pc # "idle" \/ \E t \in BagToSet(fetches) : t.st # "pending"

\* a step of a thread that is inside a pass or inside show
Progress ==
    \/ \E t \in BagToSet(fetches) : lock_article_id_set(t)
    \/ \E t \in BagToSet(fetches) : insert_article_id(t)
    \/ \E t \in BagToSet(fetches) : lock_article_map(t)
    \/ \E t \in BagToSet(fetches) : insert_article(t)
    \/ \E t \in BagToSet(fetches) : unlock_article_id_set(t)
    \/ show_ids
    \/ show_lock_map
    \/ show_get

\* C34: callbacks and the view never deadlock: while a thread is inside a pass or
\* inside show some such thread can step; a callback that holds the article map
\* took the id set of its entry before and is at its insert, and the main thread
\* holds the map only during its lookup, so nobody waits for an id set with
\* the map in hand.
C34_NoDeadlock ==
    /\ Busy => ENABLED Progress
    /\ \A e \in EntryUuids :
          map_lock = e => /\ set_lock[e] = e
                          /\ \E t \in BagToSet(fetches) : t.entry = e /\ t.st = "storing"
    /\ map_lock = Foreground => reader.pc = "get"

\* a callback waits for the article map while the view holds it, and the
\* callback of another fetch for the same entry waits for the id set
C34_Contended ==
    /\ map_lock = Foreground
    /\ \E t, u \in BagToSet(fetches) :
          /\ t.st = "inserted"
          /\ u.st = "merging"
          /\ u.entry = t.entry

\* C35: showing the elements of an article ends, whatever the elements are:
\* Detail reaches the end of its outer loop, also when an Image has no src.
C35_DetailTerminates == <>(detail = "done")

\* the names of the elements that are open after the first k edges
RECURSIVE OpenElements(_)
OpenElements(k) ==
    IF k = 0 THEN <<>>
    ELSE IF ~IsElement(Edges[k].node) THEN OpenElements(k - 1)
    ELSE IF Edges[k].open THEN Append(OpenElements(k - 1), Edges[k].node.name)
    ELSE Pop(OpenElements(k - 1))

\* how the texts met in the first k edges are to be taken over: raw inside an
\* open <pre>, normalised elsewhere
RECURSIVE Texts(_)
Texts(k) ==
    IF k = 0 THEN <<>>
    ELSE IF Edges[k].open /\ Edges[k].node.name = "text"
    THEN Append(Texts(k - 1),
                IF \E i \in DOMAIN OpenElements(k - 1) : OpenElements(k - 1)[i] = "pre"
                THEN "raw" ELSE "normalised")
    ELSE Texts(k - 1)

\* how the texts of the elements built so far were taken over
TextsOf(els) ==
    LET texts == SelectSeq(els, LAMBDA el : el.text # "none")
    IN  [i \in DOMAIN texts |-> texts[i].text]

\* from_article is about to visit a node: the next edge opens it
Visiting == detail = "build" /\ Edges[visited + 1].open

\* C37: during the traversal the tag stack holds exactly the names of the open
\* ancestor elements of the node visited next, so a text is kept raw exactly
\* when a <pre> around it is open, and the style stack is not empty when its
\* top is read.
C37_StacksFollowTraversal ==
    /\ Visiting => dom_stack = OpenElements(visited)
    /\ Visiting => element_stack # <<>>
    /\ detail \in {"build", "outer"} => TextsOf(elements) = Texts(visited)

=============================================================================
